---- MODULE Spec2Model ----
(***************************************************************************)
(* pdf_margin_analyzer.py: measuring the content margins of the pages of a *)
(* document, their statistics, and the crop that brings them to a target.  *)
(*                                                                         *)
(* Floating-point numbers are modelled as exact rationals [n, d] in lowest *)
(* terms with d > 0, and NaN as [n |-> 0, d |-> 0]; rounding is not        *)
(* modelled.  A raised exception is the exception's type name in `error`.  *)
(***************************************************************************)
EXTENDS Integers, Sequences, FiniteSets

VARIABLES
    pc,                  \* position of main
    document,            \* the handle fitz.open returned: "unopened", "open", "closed"
    pages,               \* the pages of the document
    args,                \* the parsed command line
    i,                   \* loop index of calculate_margins
    margins,             \* list of per-page margin records
    avg_margins,         \* result of statistics_margins
    pessimistic_margins, \* 25th percentile per key
    desired_margins,     \* the target margins, as fractions
    margins_to_cut,      \* result of calculate_margins_to_cut
    bad_cuts,            \* result of get_bad_cuts_with_margin
    round,               \* which of the two solve/report passes of main is running
    out,                 \* what was printed, one tag per report block
    error                \* type of the exception that ended the run, or "none"

vars == <<pc, document, pages, args, i, margins, avg_margins, pessimistic_margins,
          desired_margins, margins_to_cut, bad_cuts, round, out, error>>

\* Bounds of the model.
MaxPages == 3
MaxExc == 2
MaxRecords == 2
GridDen == 4

None == [none |-> TRUE]

Range(s) == {s[k] : k \in 1..Len(s)}

SeqsUpTo(S, n) == UNION {[1..k -> S] : k \in 0..n}

----------------------------------------------------------------------------
\* Floating-point values as exact rationals.

Abs(x) == IF x < 0 THEN -x ELSE x

RECURSIVE GCD(_, _)
GCD(a, b) == IF b = 0 THEN a ELSE GCD(b, a % b)

NaN == [n |-> 0, d |-> 0]

IsNaN(x) == x.d = 0

\* n / d as a float; d # 0.
Frac(n, d) ==
    LET g == GCD(Abs(n), Abs(d))
        s == IF d < 0 THEN -1 ELSE 1
    IN  [n |-> (s * n) \div g, d |-> (s * d) \div g]

Num(k) == [n |-> k, d |-> 1]

FAdd(x, y) == IF IsNaN(x) \/ IsNaN(y) THEN NaN ELSE Frac(x.n * y.d + y.n * x.d, x.d * y.d)

FSub(x, y) == IF IsNaN(x) \/ IsNaN(y) THEN NaN ELSE Frac(x.n * y.d - y.n * x.d, x.d * y.d)

FMul(x, y) == IF IsNaN(x) \/ IsNaN(y) THEN NaN ELSE Frac(x.n * y.n, x.d * y.d)

FDiv(x, y) == IF IsNaN(x) \/ IsNaN(y) \/ y.n = 0 THEN NaN ELSE Frac(x.n * y.d, x.d * y.n)

\* x < y on floats: false as soon as one side is NaN.
FLess(x, y) == ~IsNaN(x) /\ ~IsNaN(y) /\ x.n * y.d < y.n * x.d

----------------------------------------------------------------------------
\* get_bounding_box

MinOf(S) == CHOOSE x \in S : \A y \in S : x <= y

MaxOf(S) == CHOOSE x \in S : \A y \in S : x >= y

get_bounding_box(page) ==
    IF page.blocks = <<>>
    THEN [left |-> NaN, top |-> NaN, right |-> NaN, bottom |-> NaN]
    ELSE LET x0 == MinOf({b[1] : b \in Range(page.blocks)})
             y0 == MinOf({b[2] : b \in Range(page.blocks)})
             x1 == MaxOf({b[3] : b \in Range(page.blocks)})
             y1 == MaxOf({b[4] : b \in Range(page.blocks)})
         IN  [left   |-> Frac(x0, page.width),
              top    |-> Frac(y0, page.height),
              right  |-> Frac(page.width - x1, page.width),
              bottom |-> Frac(page.height - y1, page.height)]

----------------------------------------------------------------------------
\* calculate_margins

\* The exception list read as 1-based page numbers.
ExcludedOneBased(idx, exception_list) == (idx + 1) \in Range(exception_list)

\* `i in exception_list`
Excluded(idx, exception_list) == idx \in Range(exception_list)

\* The renaming with the parity of the 0-based index.
InnerOuterZeroBased(bbox, idx) ==
    IF idx % 2 = 0
    THEN [top |-> bbox.top, bottom |-> bbox.bottom, inner |-> bbox.left, outer |-> bbox.right]
    ELSE [top |-> bbox.top, bottom |-> bbox.bottom, inner |-> bbox.right, outer |-> bbox.left]

\* The renaming of left/right to inner/outer for the page at 0-based index idx.
InnerOuter(bbox, idx) ==
    IF (idx + 1) % 2 = 0
    THEN [top |-> bbox.top, bottom |-> bbox.bottom, inner |-> bbox.left, outer |-> bbox.right]
    ELSE [top |-> bbox.top, bottom |-> bbox.bottom, inner |-> bbox.right, outer |-> bbox.left]

\* The record appended for the page at 0-based index idx.
MarginRecord(page, idx, inner_outer) ==
    IF inner_outer THEN InnerOuter(get_bounding_box(page), idx) ELSE get_bounding_box(page)

----------------------------------------------------------------------------
\* statistics_margins and the numpy reductions it calls

\* The values of a key with the NaN kept.
DataWithNaN(ms, key) == [k \in 1..Len(ms) |-> ms[k][key]]

\* [margin[key] for margin in margins if not np.isnan(margin[key])]
Data(ms, key) ==
    LET col == [k \in 1..Len(ms) |-> ms[k][key]]
    IN  SelectSeq(col, LAMBDA v : ~IsNaN(v))

HasNaN(data) == \E k \in 1..Len(data) : IsNaN(data[k])

RECURSIVE Sum(_)
Sum(data) == IF data = <<>> THEN Num(0) ELSE FAdd(data[1], Sum(Tail(data)))

RECURSIVE Insert(_, _)
Insert(v, s) ==
    IF s = <<>> THEN <<v>>
    ELSE IF FLess(s[1], v) THEN <<s[1]>> \o Insert(v, Tail(s))
    ELSE <<v>> \o s

RECURSIVE Sorted(_)
Sorted(data) == IF data = <<>> THEN <<>> ELSE Insert(data[1], Sorted(Tail(data)))

\* np.min, np.max: a NaN in the data makes the result NaN; data is not empty.
np_min(data) ==
    IF HasNaN(data) THEN NaN
    ELSE CHOOSE v \in Range(data) : \A w \in Range(data) : ~FLess(w, v)

np_max(data) ==
    IF HasNaN(data) THEN NaN
    ELSE CHOOSE v \in Range(data) : \A w \in Range(data) : ~FLess(v, w)

np_mean(data) == FDiv(Sum(data), Num(Len(data)))

\* np.percentile(data, q), linear interpolation between the two closest ranks.
np_percentile(data, q) ==
    IF data = <<>> \/ HasNaN(data) THEN NaN
    ELSE LET s    == Sorted(data)
             pos  == (Len(data) - 1) * q
             lo   == pos \div 100
             hi   == IF lo + 1 < Len(data) THEN lo + 1 ELSE lo
             part == Frac(pos % 100, 100)
         IN  FAdd(s[lo + 1], FMul(part, FSub(s[hi + 1], s[lo + 1])))

np_median(data) ==
    IF HasNaN(data) THEN NaN
    ELSE LET s == Sorted(data)
             h == Len(data) \div 2
         IN  IF Len(data) % 2 = 1 THEN s[h + 1]
             ELSE FDiv(FAdd(s[h], s[h + 1]), Num(2))

\* The square root is kept symbolic: Sqrt(v) is zero exactly when v is.
Sqrt(v) == [sqrt |-> v]

np_std(data) ==
    LET mean == np_mean(data)
        sq   == [k \in 1..Len(data) |-> FMul(FSub(data[k], mean), FSub(data[k], mean))]
    IN  Sqrt(np_mean(sq))

calculate_iqr(data) == FSub(np_percentile(data, 75), np_percentile(data, 25))

\* The statistics of one key; np.min of an empty list raises ValueError.
KeyStatistics(data) ==
    [min    |-> np_min(data),
     max    |-> np_max(data),
     mean   |-> np_mean(data),
     median |-> np_median(data),
     iqr    |-> calculate_iqr(data),
     stddev |-> np_std(data)]

\* The call's outcome: the exception raised, if any, and the value returned.
statistics_margins(ms) ==
    IF ms = <<>> THEN [exc |-> "none", value |-> None]
    ELSE IF \E key \in DOMAIN ms[1] : Data(ms, key) = <<>>
    THEN [exc |-> "ValueError", value |-> None]
    ELSE [exc |-> "none",
          value |-> [key \in DOMAIN ms[1] |-> KeyStatistics(Data(ms, key))]]

----------------------------------------------------------------------------
\* get_bad_cuts_with_margin

\* margin[key] <= margin_threshold[key]
FlaggedOrEqual(value, threshold) ==
    ~IsNaN(value) /\ ~IsNaN(threshold) /\ value.n * threshold.d <= threshold.n * value.d

\* margin[key] < margin_threshold[key]
Flagged(value, threshold) == FLess(value, threshold)

\* The loop over enumerate(margins) from 1-based position k on, acc the lists so far.
RECURSIVE BadCutsFrom(_, _, _, _)
BadCutsFrom(ms, margin_threshold, k, acc) ==
    IF k > Len(ms) THEN acc
    ELSE BadCutsFrom(ms, margin_threshold, k + 1,
            [key \in DOMAIN acc |->
                IF key \in DOMAIN ms[k] /\ Flagged(ms[k][key], margin_threshold[key])
                THEN Append(acc[key], k - 1)
                ELSE acc[key]])

\* A key of a record that the thresholds lack raises KeyError.
get_bad_cuts_with_margin(ms, margin_threshold) ==
    IF \E k \in 1..Len(ms) : DOMAIN ms[k] \ DOMAIN margin_threshold # {}
    THEN [exc |-> "KeyError", value |-> None]
    ELSE [exc |-> "none",
          value |-> BadCutsFrom(ms, margin_threshold, 1,
                                [key \in DOMAIN margin_threshold |-> <<>>])]

----------------------------------------------------------------------------
\* calculate_margins_to_cut

\* A solve that takes the product of the diagonal for the determinant.
np_linalg_solve_diagonal(A, B) ==
    LET det == FMul(A[1][1], A[2][2])
    IN  IF det = Num(0)
        THEN [exc |-> "LinAlgError", x |-> None]
        ELSE [exc |-> "none",
              x |-> <<FDiv(FSub(FMul(B[1], A[2][2]), FMul(A[1][2], B[2])), det),
                      FDiv(FSub(FMul(A[1][1], B[2]), FMul(A[2][1], B[1])), det)>>]

\* np.linalg.solve of a 2x2 system A x = B: LinAlgError when A is singular.
np_linalg_solve(A, B) ==
    LET det == FSub(FMul(A[1][1], A[2][2]), FMul(A[1][2], A[2][1]))
    IN  IF det = Num(0)
        THEN [exc |-> "LinAlgError", x |-> None]
        ELSE [exc |-> "none",
              x |-> <<FDiv(FSub(FMul(B[1], A[2][2]), FMul(A[1][2], B[2])), det),
                      FDiv(FSub(FMul(A[1][1], B[2]), FMul(A[2][1], B[1])), det)>>]

\* The right-hand side with observed minus desired.
solve_margin_to_cut_negated(ms, desired, margin_keys) ==
    LET d0 == desired[margin_keys[1]]
        d1 == desired[margin_keys[2]]
    IN  np_linalg_solve(<<<<FSub(d0, Num(1)), d0>>, <<d1, FSub(d1, Num(1))>>>>,
                        <<FSub(ms[margin_keys[1]], d0), FSub(ms[margin_keys[2]], d1)>>)

solve_margin_to_cut(ms, desired, margin_keys) ==
    LET margin_perc == <<ms[margin_keys[1]], ms[margin_keys[2]]>>
        desired_margin_perc == <<desired[margin_keys[1]], desired[margin_keys[2]]>>
        linear_system_matrix_A ==
            <<<<FSub(desired_margin_perc[1], Num(1)), desired_margin_perc[1]>>,
              <<desired_margin_perc[2], FSub(desired_margin_perc[2], Num(1))>>>>
        linear_system_matrix_B ==
            <<FSub(desired_margin_perc[1], margin_perc[1]),
              FSub(desired_margin_perc[2], margin_perc[2])>>
    IN  np_linalg_solve(linear_system_matrix_A, linear_system_matrix_B)

WidthKeys(ms) == IF "left" \in DOMAIN ms THEN <<"left", "right">> ELSE <<"inner", "outer">>

HeightKeys == <<"top", "bottom">>

calculate_margins_to_cut(ms, desired) ==
    LET width_keys == WidthKeys(ms)
        x_width    == solve_margin_to_cut(ms, desired, width_keys)
        x_height   == solve_margin_to_cut(ms, desired, HeightKeys)
    IN  IF x_width.exc # "none" THEN [exc |-> x_width.exc, value |-> None]
        ELSE IF x_height.exc # "none" THEN [exc |-> x_height.exc, value |-> None]
        ELSE [exc |-> "none",
              value |-> [key \in {width_keys[1], width_keys[2], "top", "bottom"} |->
                            IF key = width_keys[1] THEN x_width.x[1]
                            ELSE IF key = width_keys[2] THEN x_width.x[2]
                            ELSE IF key = "top" THEN x_height.x[1]
                            ELSE x_height.x[2]]]

----------------------------------------------------------------------------
\* main

EmptyPage == [width |-> 10, height |-> 20, blocks |-> <<>>]

\* Two blocks, 10% margins on every side.
PageA == [width |-> 10, height |-> 20, blocks |-> <<<<1, 2, 5, 10>>, <<4, 8, 9, 18>>>>]

\* One block, margins 1/4, 1/10, 1/8, 1/5.
PageB == [width |-> 8, height |-> 10, blocks |-> <<<<2, 1, 7, 8>>>>]

PageSet == {EmptyPage, PageA, PageB}

\* --adjust-to-desired-margins, in percent; the second makes the width system singular.
DesiredArgs ==
    {[values |-> <<Num(10), Num(20), Num(10), Num(10)>>],
     [values |-> <<Num(50), Num(50), Num(10), Num(10)>>]}

\* --exceptions: its default [0], none, and lists that empty a document of up to
\* three pages or leave one page of it.
ExceptionLists == {<<0>>, <<>>, <<1>>, <<0, 1, 2>>}

ArgsSet ==
    [exceptions : ExceptionLists,
     inner_outer : BOOLEAN,
     plot : BOOLEAN,
     adjust_to_desired_margins : {None} \cup DesiredArgs]

\* args.adjust_to_desired_margins[k] / 100 under the naming --inner-outer selects
DesiredMargins(values, inner_outer) ==
    IF inner_outer
    THEN [inner |-> FDiv(values[1], Num(100)), outer |-> FDiv(values[2], Num(100)),
          top |-> FDiv(values[3], Num(100)), bottom |-> FDiv(values[4], Num(100))]
    ELSE [left |-> FDiv(values[1], Num(100)), right |-> FDiv(values[2], Num(100)),
          top |-> FDiv(values[3], Num(100)), bottom |-> FDiv(values[4], Num(100))]

Init ==
    /\ pc = "start"
    /\ document = "unopened"
    /\ pages \in SeqsUpTo(PageSet, MaxPages)
    /\ args \in ArgsSet
    /\ i = 0
    /\ margins = <<>>
    /\ avg_margins = None
    /\ pessimistic_margins = None
    /\ desired_margins = None
    /\ margins_to_cut = None
    /\ bad_cuts = None
    /\ round = 0
    /\ out = <<>>
    /\ error = "none"

\* document = fitz.open(args.pdf_path), and the entry into calculate_margins
Open ==
    /\ pc = "start"
    /\ document' = "open"
    /\ i' = 0
    /\ margins' = <<>>
    /\ pc' = "calculate_margins"
    /\ UNCHANGED <<pages, args, avg_margins, pessimistic_margins, desired_margins,
                   margins_to_cut, bad_cuts, round, out, error>>

\* One iteration of the loop of calculate_margins over an excluded page.
CalcSkip ==
    /\ pc = "calculate_margins"
    /\ i < Len(pages)
    /\ Excluded(i, args.exceptions)
    /\ i' = i + 1
    /\ UNCHANGED <<pc, document, pages, args, margins, avg_margins, pessimistic_margins,
                   desired_margins, margins_to_cut, bad_cuts, round, out, error>>

\* One iteration of the loop of calculate_margins over a retained page.
CalcAppend ==
    /\ pc = "calculate_margins"
    /\ i < Len(pages)
    /\ ~Excluded(i, args.exceptions)
    /\ margins' = Append(margins, MarginRecord(pages[i + 1], i, args.inner_outer))
    /\ i' = i + 1
    /\ UNCHANGED <<pc, document, pages, args, avg_margins, pessimistic_margins,
                   desired_margins, margins_to_cut, bad_cuts, round, out, error>>

CalcReturn ==
    /\ pc = "calculate_margins"
    /\ i = Len(pages)
    /\ pc' = "statistics_margins"
    /\ UNCHANGED <<document, pages, args, i, margins, avg_margins, pessimistic_margins,
                   desired_margins, margins_to_cut, bad_cuts, round, out, error>>

\* avg_margins = statistics_margins(margins)
Statistics ==
    /\ pc = "statistics_margins"
    /\ LET r == statistics_margins(margins)
       IN  IF r.exc # "none"
           THEN /\ error' = r.exc
                /\ pc' = "failed"
                /\ UNCHANGED avg_margins
           ELSE /\ avg_margins' = r.value
                /\ pc' = "print_margins"
                /\ UNCHANGED error
    /\ UNCHANGED <<document, pages, args, i, margins, pessimistic_margins,
                   desired_margins, margins_to_cut, bad_cuts, round, out>>

\* print_margins(avg_margins, "Margins")
PrintMargins ==
    /\ pc = "print_margins"
    /\ out' = Append(out, IF avg_margins # None
                          THEN "Margins margins (percentage):"
                          ELSE "No margins pages to calculate margins.")
    /\ pc' = "plot"
    /\ UNCHANGED <<document, pages, args, i, margins, avg_margins, pessimistic_margins,
                   desired_margins, margins_to_cut, bad_cuts, round, error>>

\* if args.plot: plot_margins(margins), which returns at once on an empty list
Plot ==
    /\ pc = "plot"
    /\ args.plot
    /\ out' = IF margins = <<>> THEN out ELSE Append(out, "Margins Statistics")
    /\ pc' = "adjust"
    /\ UNCHANGED <<document, pages, args, i, margins, avg_margins, pessimistic_margins,
                   desired_margins, margins_to_cut, bad_cuts, round, error>>

NoPlot ==
    /\ pc = "plot"
    /\ ~args.plot
    /\ pc' = "adjust"
    /\ UNCHANGED <<document, pages, args, i, margins, avg_margins, pessimistic_margins,
                   desired_margins, margins_to_cut, bad_cuts, round, out, error>>

\* The head of `if args.adjust_to_desired_margins:`; margins[0] of an empty list
\* raises IndexError.
Adjust ==
    /\ pc = "adjust"
    /\ args.adjust_to_desired_margins # None
    /\ IF margins = <<>>
       THEN /\ error' = "IndexError"
            /\ pc' = "failed"
            /\ UNCHANGED <<pessimistic_margins, desired_margins, round, out>>
       ELSE /\ pessimistic_margins' =
                   [key \in DOMAIN margins[1] |-> np_percentile(Data(margins, key), 25)]
            /\ out' = Append(out, "Pessimistic estimate of typical margins:")
            /\ desired_margins' =
                   DesiredMargins(args.adjust_to_desired_margins.values, args.inner_outer)
            /\ round' = 1
            /\ pc' = "calculate_margins_to_cut"
            /\ UNCHANGED error
    /\ UNCHANGED <<document, pages, args, i, margins, avg_margins, margins_to_cut, bad_cuts>>

NoAdjust ==
    /\ pc = "adjust"
    /\ args.adjust_to_desired_margins = None
    /\ pc' = "done"
    /\ UNCHANGED <<document, pages, args, i, margins, avg_margins, pessimistic_margins,
                   desired_margins, margins_to_cut, bad_cuts, round, out, error>>

\* margins_to_cut = calculate_margins_to_cut(pessimistic_margins, desired_margins)
\* and the report of it
CalculateMarginsToCut ==
    /\ pc = "calculate_margins_to_cut"
    /\ LET r == calculate_margins_to_cut(pessimistic_margins, desired_margins)
       IN  IF r.exc # "none"
           THEN /\ error' = r.exc
                /\ pc' = "failed"
                /\ UNCHANGED <<margins_to_cut, out>>
           ELSE /\ margins_to_cut' = r.value
                /\ out' = Append(out, "Margins to cut:")
                /\ pc' = "get_bad_cuts_with_margin"
                /\ UNCHANGED error
    /\ UNCHANGED <<document, pages, args, i, margins, avg_margins, pessimistic_margins,
                   desired_margins, bad_cuts, round>>

\* bad_cuts = get_bad_cuts_with_margin(margins, margins_to_cut) and the report of
\* it; main runs the solve and this report twice.
GetBadCuts ==
    /\ pc = "get_bad_cuts_with_margin"
    /\ LET r == get_bad_cuts_with_margin(margins, margins_to_cut)
       IN  IF r.exc # "none"
           THEN /\ error' = r.exc
                /\ pc' = "failed"
                /\ UNCHANGED <<bad_cuts, out, round>>
           ELSE /\ bad_cuts' = r.value
                /\ out' = Append(out, "Bad cuts:")
                /\ IF round = 1
                   THEN round' = 2 /\ pc' = "calculate_margins_to_cut"
                   ELSE round' = round /\ pc' = "done"
                /\ UNCHANGED error
    /\ UNCHANGED <<document, pages, args, i, margins, avg_margins, pessimistic_margins,
                   desired_margins, margins_to_cut>>

Next ==
    \/ Open
    \/ CalcSkip
    \/ CalcAppend
    \/ CalcReturn
    \/ Statistics
    \/ PrintMargins
    \/ Plot
    \/ NoPlot
    \/ Adjust
    \/ NoAdjust
    \/ CalculateMarginsToCut
    \/ GetBadCuts

Spec == Init /\ [][Next]_vars

----------------------------------------------------------------------------
\* calculate_margins alone, over every exception list up to MaxExc entries with
\* values from before the first page to past the last.

InitCollect ==
    /\ pc = "start"
    /\ document = "unopened"
    /\ pages \in SeqsUpTo(PageSet, MaxPages)
    /\ args \in [exceptions : SeqsUpTo(-1..MaxPages, MaxExc),
                 inner_outer : BOOLEAN,
                 plot : {FALSE},
                 adjust_to_desired_margins : {None}]
    /\ i = 0
    /\ margins = <<>>
    /\ avg_margins = None
    /\ pessimistic_margins = None
    /\ desired_margins = None
    /\ margins_to_cut = None
    /\ bad_cuts = None
    /\ round = 0
    /\ out = <<>>
    /\ error = "none"

NextCollect ==
    \/ Open
    \/ CalcSkip
    \/ CalcAppend
    \/ CalcReturn

SpecCollect == InitCollect /\ [][NextCollect]_vars

----------------------------------------------------------------------------
\* calculate_margins_to_cut alone: one axis takes every observed and desired pair
\* of the grid k / GridDen, the other a fixed regular or singular system.

Grid == {Frac(k, GridDen) : k \in 0..GridDen}

AxisInputs == [m : Grid \X Grid, d : Grid \X Grid]

OtherAxisInputs ==
    {[m |-> <<Frac(1, 10), Frac(1, 10)>>, d |-> <<Frac(1, 10), Frac(1, 5)>>],
     [m |-> <<Frac(1, 10), Frac(1, 10)>>, d |-> <<Frac(1, 2), Frac(1, 2)>>]}

\* The mapping with the width pair w and the height pair h under the chosen naming.
FourKeys(inner_outer, w, h) ==
    IF inner_outer
    THEN [inner |-> w[1], outer |-> w[2], top |-> h[1], bottom |-> h[2]]
    ELSE [left |-> w[1], right |-> w[2], top |-> h[1], bottom |-> h[2]]

InitCrop ==
    \E io \in BOOLEAN, a \in AxisInputs, o \in OtherAxisInputs, swap \in BOOLEAN :
        LET w == IF swap THEN o ELSE a
            h == IF swap THEN a ELSE o
        IN  /\ pc = "calculate_margins_to_cut"
            /\ document = "open"
            /\ pages = <<>>
            /\ args = [exceptions |-> <<0>>, inner_outer |-> io, plot |-> FALSE,
                       adjust_to_desired_margins |->
                           [values |-> <<FMul(Num(100), w.d[1]), FMul(Num(100), w.d[2]),
                                         FMul(Num(100), h.d[1]), FMul(Num(100), h.d[2])>>]]
            /\ i = 0
            /\ margins = <<>>
            /\ avg_margins = None
            /\ pessimistic_margins = FourKeys(io, w.m, h.m)
            /\ desired_margins = FourKeys(io, w.d, h.d)
            /\ margins_to_cut = None
            /\ bad_cuts = None
            /\ round = 1
            /\ out = <<>>
            /\ error = "none"

NextCrop == CalculateMarginsToCut

SpecCrop == InitCrop /\ [][NextCrop]_vars

----------------------------------------------------------------------------
\* get_bad_cuts_with_margin alone, over every list of up to MaxRecords records
\* and every threshold mapping built from the values below.

BadValues == {NaN, Num(0), Frac(1, 10), Frac(1, 4)}

BadThresholds == {Frac(-1, 10), Num(0), Frac(1, 10), Frac(1, 4)}

InitBadCuts ==
    \E io \in BOOLEAN, t \in BadThresholds \X BadThresholds :
        /\ pc = "get_bad_cuts_with_margin"
        /\ document = "open"
        /\ pages = <<>>
        /\ args = [exceptions |-> <<0>>, inner_outer |-> io, plot |-> FALSE,
                   adjust_to_desired_margins |-> None]
        /\ i = 0
        /\ margins \in SeqsUpTo({FourKeys(io, <<v[1], v[2]>>, <<v[2], v[1]>>) :
                                    v \in BadValues \X BadValues}, MaxRecords)
        /\ avg_margins = None
        /\ pessimistic_margins = None
        /\ desired_margins = None
        /\ margins_to_cut = FourKeys(io, <<t[1], t[2]>>, <<t[1], t[2]>>)
        /\ bad_cuts = None
        /\ round = 2
        /\ out = <<>>
        /\ error = "none"

NextBadCuts == GetBadCuts

SpecBadCuts == InitBadCuts /\ [][NextBadCuts]_vars

----------------------------------------------------------------------------
\* Properties of calculate_margins (SpecCollect)

\* The 0-based indices of the pages that no entry of --exceptions names.
KeptIndices ==
    {k \in 0..(Len(pages) - 1) : \A e \in 1..Len(args.exceptions) : args.exceptions[e] # k}

\* The original 0-based index of the page behind the j-th record (j from 1).
OriginalIndex(j) ==
    CHOOSE k \in KeptIndices : Cardinality({h \in KeptIndices : h < k}) = j - 1

Collected == pc \notin {"start", "calculate_margins"}

\* C4: calculate_margins returns one record per page whose 0-based index is not in
\* the exception list, so pageCount minus the number of distinct exception indices
\* inside the document, and the records are in the document order of their pages.
C4_OneRecordPerRetainedPage ==
    Collected =>
        /\ Len(margins) =
              Len(pages) - Cardinality(Range(args.exceptions) \cap (0..(Len(pages) - 1)))
        /\ Len(margins) = Cardinality(KeptIndices)
        /\ \A j \in 1..Len(margins) :
              margins[j] = MarginRecord(pages[OriginalIndex(j) + 1], OriginalIndex(j),
                                        args.inner_outer)

\* An exception list with a duplicate or an index outside the document, a page skipped before two retained
\* pages that differ.
C4_Witness ==
    /\ Collected
    /\ Len(args.exceptions) = 2
    /\ args.exceptions[1] = 0
    /\ Cardinality(Range(args.exceptions) \cap (0..(Len(pages) - 1))) = 1
    /\ Len(margins) = 2
    /\ margins[1] # margins[2]

\* C5: a record has the keys left, top, right, bottom without --inner-outer, and
\* top, bottom, inner, outer with it, where a page at even 1-based original position
\* has inner = left, outer = right and a page at odd position inner = right,
\* outer = left; top and bottom are the bounding box's.
C5_OneNamingByOriginalParity ==
    Collected =>
        \A j \in 1..Len(margins) :
            LET k    == OriginalIndex(j)
                bbox == get_bounding_box(pages[k + 1])
                r    == margins[j]
            IN  IF args.inner_outer
                THEN /\ DOMAIN r = {"top", "bottom", "inner", "outer"}
                     /\ r.top = bbox.top
                     /\ r.bottom = bbox.bottom
                     /\ (k + 1) % 2 = 0 => r.inner = bbox.left /\ r.outer = bbox.right
                     /\ (k + 1) % 2 = 1 => r.inner = bbox.right /\ r.outer = bbox.left
                ELSE /\ DOMAIN r = {"left", "top", "right", "bottom"}
                     /\ r = bbox

\* With --inner-outer, the first page excluded and the second, whose left and right
\* margins differ, retained: its record is the first, its position is even.
C5_Witness ==
    /\ Collected
    /\ args.inner_outer
    /\ Len(pages) >= 2
    /\ 0 \in Range(args.exceptions)
    /\ pages[2] = PageB
    /\ Len(margins) >= 1
    /\ OriginalIndex(1) = 1
    /\ margins[1].inner = Frac(1, 4)
    /\ margins[1].outer = Frac(1, 8)

----------------------------------------------------------------------------
\* Properties of the run of main (Spec)

StatisticsDone == pc \notin {"start", "calculate_margins", "statistics_margins"}

\* x <= y on two numbers.
Le(x, y) == x.n * y.d <= y.n * x.d

\* The numbers, NaN left out, that the first j records hold for a key, their count
\* and their sum.
NumbersOf(key, j) == {margins[k][key] : k \in 1..j} \ {NaN}

CountOf(key, j) == Cardinality({k \in 1..j : margins[k][key] # NaN})

RECURSIVE SumOf(_, _)
SumOf(key, j) ==
    IF j = 0 THEN Num(0)
    ELSE IF margins[j][key] = NaN THEN SumOf(key, j - 1)
    ELSE FAdd(SumOf(key, j - 1), margins[j][key])

\* C6: a page without content blocks still yields a record, all NaN, and the
\* statistics of a key are those of the key's non-NaN values: min and max are the
\* least and greatest of them, the mean is their sum over their count, mean and
\* median lie between min and max, and when they all equal v then
\* min = max = mean = median = v, iqr = 0 and stddev = 0.
C6_StatisticsOverNumbersOnly ==
    /\ Collected =>
          /\ Len(margins) = Cardinality(KeptIndices)
          /\ \A j \in 1..Len(margins) :
                pages[OriginalIndex(j) + 1].blocks = <<>> =>
                    \A key \in DOMAIN margins[j] : margins[j][key] = NaN
    /\ (/\ StatisticsDone
        /\ margins # <<>>
        /\ \A key \in DOMAIN margins[1] : NumbersOf(key, Len(margins)) # {}) =>
          /\ avg_margins # None
          /\ DOMAIN avg_margins = DOMAIN margins[1]
          /\ \A key \in DOMAIN avg_margins :
                LET vals == NumbersOf(key, Len(margins))
                    st   == avg_margins[key]
                IN  /\ st.min \in vals
                    /\ st.max \in vals
                    /\ \A v \in vals : Le(st.min, v) /\ Le(v, st.max)
                    /\ FMul(st.mean, Num(CountOf(key, Len(margins)))) = SumOf(key, Len(margins))
                    /\ Le(st.min, st.mean) /\ Le(st.mean, st.max)
                    /\ Le(st.min, st.median) /\ Le(st.median, st.max)
                    /\ Le(Num(0), st.iqr)
                    /\ (\A v, w \in vals : v = w) =>
                          /\ st.max = st.min
                          /\ st.mean = st.min
                          /\ st.median = st.min
                          /\ st.iqr = Num(0)
                          /\ st.stddev = Sqrt(Num(0))

\* Two content pages with 10% margins around a page without content.
C6_Witness ==
    /\ StatisticsDone
    /\ ~args.inner_outer
    /\ Len(margins) = 3
    /\ margins[2].left = NaN
    /\ margins[1].left = Frac(1, 10)
    /\ margins[3].left = Frac(1, 10)
    /\ avg_margins # None
    /\ avg_margins.left = [min |-> Frac(1, 10), max |-> Frac(1, 10), mean |-> Frac(1, 10),
                           median |-> Frac(1, 10), iqr |-> Num(0), stddev |-> Sqrt(Num(0))]

\* C8: with an empty margin list the run takes the "no data" path and raises
\* nothing, whatever --plot and --adjust-to-desired-margins are.
C8_EmptyCollectionNeverRaises ==
    (Collected /\ margins = <<>>) =>
        /\ error = "none"
        /\ pc # "failed"
        /\ (StatisticsDone => avg_margins = None)
        /\ (pc = "done" => out = <<"No margins pages to calculate margins.">>)

\* C9: a key that is NaN in every record of a non-empty list makes
\* statistics_margins fail with EmptyStatisticsError.
C9_AllNaNKeyRaisesEmptyStatisticsError ==
    (/\ StatisticsDone
     /\ margins # <<>>
     /\ \E key \in DOMAIN margins[1] : \A j \in 1..Len(margins) : margins[j][key] = NaN)
    => (pc = "failed" /\ error = "EmptyStatisticsError")

\* C10: no run of main ends with the document handle still held.
C10_HandleReleasedAtEnd ==
    pc \in {"done", "failed"} => document = "closed"

----------------------------------------------------------------------------
\* Properties of calculate_margins_to_cut (SpecCrop)

Solved == pc # "calculate_margins_to_cut"

AxisKeys == {WidthKeys(pessimistic_margins), HeightKeys}

\* d0 + d1 # 1: the determinant (d0 - 1)(d1 - 1) - d0 d1 = 1 - d0 - d1 is not zero.
Regular(keys) == FAdd(desired_margins[keys[1]], desired_margins[keys[2]]) # Num(1)

\* C1: when no axis is singular, the solver returns crop fractions c with
\* m0 - c0 = d0 (1 - c0 - c1) and m1 - c1 = d1 (1 - c0 - c1) on each axis.
C1_CropReachesDesiredMargins ==
    (Solved /\ \A keys \in AxisKeys : Regular(keys)) =>
        /\ error = "none"
        /\ margins_to_cut # None
        /\ DOMAIN margins_to_cut = DOMAIN pessimistic_margins
        /\ \A keys \in AxisKeys :
              LET m0   == pessimistic_margins[keys[1]]
                  m1   == pessimistic_margins[keys[2]]
                  d0   == desired_margins[keys[1]]
                  d1   == desired_margins[keys[2]]
                  c0   == margins_to_cut[keys[1]]
                  c1   == margins_to_cut[keys[2]]
                  rest == FSub(Num(1), FAdd(c0, c1))
              IN  /\ FSub(m0, c0) = FMul(d0, rest)
                  /\ FSub(m1, c1) = FMul(d1, rest)

\* Observed 1/4 on both sides, desired 1/2 and 3/4: crops that differ.
C1_Witness ==
    /\ Solved
    /\ error = "none"
    /\ margins_to_cut # None
    /\ "left" \in DOMAIN margins_to_cut
    /\ pessimistic_margins.left = Frac(1, 4)
    /\ pessimistic_margins.right = Frac(1, 4)
    /\ desired_margins.left = Frac(1, 2)
    /\ desired_margins.right = Frac(3, 4)
    /\ margins_to_cut.left # margins_to_cut.right

\* C2 as stated, whatever the name of the error: with a desired pair (1, 1) on an
\* axis the solver raises instead of returning crop fractions.
C2_FullTargetRaisesSingular ==
    (/\ Solved
     /\ \E keys \in AxisKeys :
           desired_margins[keys[1]] = Num(1) /\ desired_margins[keys[2]] = Num(1))
    => (error # "none" /\ margins_to_cut = None)

\* C2 as amended: the system of a desired pair (1, 1) is not singular; the solver
\* raises nothing on its account and returns c0 = 1 - m1, c1 = 1 - m0 for that axis.
C2_FullTargetIsSolved ==
    Solved =>
        \A keys \in AxisKeys :
            (desired_margins[keys[1]] = Num(1) /\ desired_margins[keys[2]] = Num(1)) =>
                /\ error # "none" => \E other \in AxisKeys \ {keys} : ~Regular(other)
                /\ error = "none" =>
                      /\ margins_to_cut[keys[1]] = FSub(Num(1), pessimistic_margins[keys[2]])
                      /\ margins_to_cut[keys[2]] = FSub(Num(1), pessimistic_margins[keys[1]])

C2_Witness ==
    /\ Solved
    /\ error = "none"
    /\ margins_to_cut # None
    /\ "inner" \in DOMAIN desired_margins
    /\ desired_margins.inner = Num(1)
    /\ desired_margins.outer = Num(1)
    /\ pessimistic_margins.inner = Frac(1, 4)
    /\ margins_to_cut.outer = Frac(3, 4)

\* C3: a singular axis ends the call in SingularCropSystemError, with no mapping.
C3_SingularAxisRaisesNamedError ==
    (Solved /\ \E keys \in AxisKeys : ~Regular(keys))
    => (error = "SingularCropSystemError" /\ margins_to_cut = None)

----------------------------------------------------------------------------
\* Properties of get_bad_cuts_with_margin (SpecBadCuts)

Evaluated == pc # "get_bad_cuts_with_margin"

====
